---------------------------- MODULE Spec2Model ----------------------------
(***************************************************************************)
(* Item CRUD service: HTTP handlers (api/api_v1/endpoints/item.py) over    *)
(* the repository functions (crud/item.py) over one document collection.   *)
(*                                                                         *)
(* The collection is a sequence of documents in the store's natural order. *)
(* Every handler awaits exactly one database call, except the PUT handler, *)
(* which awaits read_item and then update_one.  Spec runs the requests one *)
(* after the other (each handler is one step).  SpecConc lets requests     *)
(* interleave at the granularity of single database calls, so that a PUT   *)
(* handler is two steps with other requests' calls in between.             *)
(***************************************************************************)
EXTENDS Integers, Sequences, FiniteSets

VARIABLES
    coll,   \* db[MONGODB_DATABASE][MONGODB_COLLECTION]: documents, natural order
    resp,   \* the last request served and the response sent for it
    pend    \* PUT handlers suspended between read_item and update_one

vars == <<coll, resp, pend>>

---------------------------------------------------------------------------
(* Bounds of the model. *)

MaxSkip == 2        \* skip query parameter ranges over -1 .. MaxSkip
MaxLimit == 2       \* limit query parameter ranges over -1 .. MaxLimit
MaxInFlight == 1    \* PUT handlers that may be suspended at the same time

(* Values str(uuid4()) may produce, and the ids a client may ask for. *)
Ids == {"u1", "u2", "u3"}

Names == {"pen", "cup"}
Descriptions == {"blue pen", "tin cup"}
Prices == {15, 20}          \* in tenths: 1.5 and 2.0

(* ItemBase: the validated request bodies, a pen and the bodies that       *)
(* differ from it in at most one field.                                     *)
Pen == [name |-> "pen", description |-> "blue pen", price |-> 15]

ItemBase ==
    {b \in [name : Names, description : Descriptions, price : Prices] :
        Cardinality({f \in {"name", "description", "price"} : b[f] # Pen[f]}) <= 1}

(* The query parameters of GET /items/: any int, with the handler's defaults. *)
default_skip == 0
default_limit == 100

Skips == (-1 .. MaxSkip) \cup {default_skip}
Limits == (-1 .. MaxLimit) \cup {default_limit}
Handlers == 1 .. MaxInFlight

---------------------------------------------------------------------------
(* Program constants. *)

ID == "_id"

HTTP_200_OK == 200
HTTP_201_CREATED == 201
HTTP_204_NO_CONTENT == 204
HTTP_304_NOT_MODIFIED == 304
HTTP_404_NOT_FOUND == 404
HTTP_500_INTERNAL_SERVER_ERROR == 500

---------------------------------------------------------------------------
(* Sequence helpers. *)

Min(a, b) == IF a < b THEN a ELSE b

(* The positions of c holding a document whose _id is id. *)
Matching(c, id) == {i \in 1 .. Len(c) : c[i][ID] = id}

First(S) == CHOOSE i \in S : \A j \in S : i <= j

(* c without the positions in S, order kept. *)
RECURSIVE Without(_, _)
Without(c, S) ==
    IF c = <<>> THEN <<>>
    ELSE LET rest == Without(Tail(c), {i - 1 : i \in S \ {1}})
         IN  IF 1 \in S THEN rest ELSE <<Head(c)>> \o rest

---------------------------------------------------------------------------
(* The schema: Item(id=..., **document) keeps name, description and price  *)
(* of the document, takes id from the keyword, and ignores the extra _id.  *)

Item(id, document) ==
    [id |-> id,
     name |-> document.name,
     description |-> document.description,
     price |-> document.price]

(* vars(item): the model's fields as the document to store. *)
Vars(item) ==
    [name |-> item.name, description |-> item.description, price |-> item.price]

(* document[ID] = ...: the document with its _id set. *)
WithId(document, id) ==
    [_id |-> id,
     name |-> document.name,
     description |-> document.description,
     price |-> document.price]

---------------------------------------------------------------------------
(* The driver calls the repository makes on the collection. *)

(* insert_one on a collection whose _id index does not reject duplicates. *)
insert_one_no_index(c, document) ==
    [coll |-> Append(c, document), raised |-> FALSE,
     inserted_id |-> document[ID]]

(* insert_one: the unique index on _id rejects a duplicate (raises). *)
insert_one(c, document) ==
    IF Matching(c, document[ID]) # {}
    THEN [coll |-> c, raised |-> TRUE, inserted_id |-> document[ID]]
    ELSE [coll |-> Append(c, document), raised |-> FALSE,
          inserted_id |-> document[ID]]

(* find_one with the filter left out: the first document of the collection. *)
find_one_no_filter(c, id) ==
    IF c = <<>> THEN <<>> ELSE <<c[1]>>

(* find_one({_id: id}): the first matching document, or None (<<>>). *)
find_one(c, id) ==
    IF Matching(c, id) = {} THEN <<>> ELSE <<c[First(Matching(c, id))]>>

(* The limit applied to the collection before the skip. *)
find_limit_then_skip(c, skip, limit) ==
    IF skip < 0 \/ limit < 0
    THEN [raised |-> TRUE, docs |-> <<>>]
    ELSE [raised |-> FALSE,
          docs |-> SubSeq(SubSeq(c, 1, Min(Len(c), limit)), skip + 1,
                          Min(Len(c), limit))]

(* find().skip(skip).to_list(length=limit); a negative skip or length    *)
(* raises ValueError.                                                      *)
find_skip_to_list(c, skip, limit) ==
    IF skip < 0 \/ limit < 0
    THEN [raised |-> TRUE, docs |-> <<>>]
    ELSE [raised |-> FALSE,
          docs |-> SubSeq(c, skip + 1, Min(Len(c), skip + limit))]

(* update_one that sets name and description and leaves the price. *)
update_one_keeps_price(c, id, document) ==
    IF Matching(c, id) = {}
    THEN [coll |-> c, matched_count |-> 0, modified_count |-> 0]
    ELSE LET i == First(Matching(c, id))
             new == [c[i] EXCEPT !.name = document.name,
                                 !.description = document.description]
         IN  [coll |-> [c EXCEPT ![i] = new],
              matched_count |-> 1,
              modified_count |-> IF new = c[i] THEN 0 ELSE 1]

(* update_one that counts every matched document as modified. *)
update_one_counts_matched(c, id, document) ==
    IF Matching(c, id) = {}
    THEN [coll |-> c, matched_count |-> 0, modified_count |-> 0]
    ELSE LET i == First(Matching(c, id))
             new == WithId(document, c[i][ID])
         IN  [coll |-> [c EXCEPT ![i] = new],
              matched_count |-> 1,
              modified_count |-> 1]

(* update_one({_id: id}, {$set: document}): the first match gets the     *)
(* fields; modified_count counts a match whose fields changed.             *)
update_one(c, id, document) ==
    IF Matching(c, id) = {}
    THEN [coll |-> c, matched_count |-> 0, modified_count |-> 0]
    ELSE LET i == First(Matching(c, id))
             new == WithId(document, c[i][ID])
         IN  [coll |-> [c EXCEPT ![i] = new],
              matched_count |-> 1,
              modified_count |-> IF new = c[i] THEN 0 ELSE 1]

(* delete_many with an empty filter: every document goes. *)
delete_many_no_filter(c, id) ==
    [coll |-> <<>>, deleted_count |-> Cardinality(Matching(c, id))]

(* delete_many({_id: id}): every match goes. *)
delete_many(c, id) ==
    [coll |-> Without(c, Matching(c, id)),
     deleted_count |-> Cardinality(Matching(c, id))]

---------------------------------------------------------------------------
(* crud/item.py.  Each returns the collection after the call and the       *)
(* function's result; Optional[Item] is <<>> (None) or <<item>>.           *)

(* create_item that returns the item without the id the store reports. *)
crud_create_item_no_id(c, item, uuid) ==
    LET document == WithId(Vars(item), uuid)
        result == insert_one(c, document)
    IN  [coll |-> result.coll,
         raised |-> result.raised,
         ret |-> IF result.raised THEN <<>> ELSE <<Item("", document)>>]

crud_create_item(c, item, uuid) ==
    LET document == WithId(Vars(item), uuid)
        result == insert_one(c, document)
    IN  [coll |-> result.coll,
         raised |-> result.raised,
         ret |-> IF result.raised THEN <<>>
                 ELSE <<Item(result.inserted_id, document)>>]

RECURSIVE ItemsOf(_)
ItemsOf(docs) ==
    IF docs = <<>> THEN <<>>
    ELSE <<Item(Head(docs)[ID], Head(docs))>> \o ItemsOf(Tail(docs))

crud_get_all_items(c, skip, limit) ==
    LET found == find_skip_to_list(c, skip, limit)
    IN  [raised |-> found.raised, ret |-> ItemsOf(found.docs)]

crud_read_item(c, id) ==
    LET item == find_one(c, id)
    IN  IF item = <<>> THEN <<>> ELSE <<Item(item[1][ID], item[1])>>

crud_update_item(c, id, item) ==
    LET document == Vars(item)
        result == update_one(c, id, document)
    IN  [coll |-> result.coll,
         ret |-> IF result.modified_count = 0 THEN <<>>
                 ELSE <<Item(id, document)>>]

crud_delete_item(c, id) ==
    LET result == delete_many(c, id)
    IN  [coll |-> result.coll, ret |-> result.deleted_count]

---------------------------------------------------------------------------
(* api/api_v1/endpoints/item.py.  Each handler gives the collection after  *)
(* the request, the status code and the body (a sequence of items).        *)

Result(c, status, body) == [coll |-> c, status |-> status, body |-> body]

get_item(c, item_id) ==
    LET item == crud_read_item(c, item_id)
    IN  IF item = <<>> THEN Result(c, HTTP_404_NOT_FOUND, <<>>)
        ELSE Result(c, HTTP_200_OK, item)

get_all_items(c, skip, limit) ==
    LET items == crud_get_all_items(c, skip, limit)
    IN  IF items.raised THEN Result(c, HTTP_500_INTERNAL_SERVER_ERROR, <<>>)
        ELSE Result(c, HTTP_200_OK, items.ret)

post_item(c, item, uuid) ==
    LET created == crud_create_item(c, item, uuid)
    IN  IF created.raised
        THEN Result(created.coll, HTTP_500_INTERNAL_SERVER_ERROR, <<>>)
        ELSE Result(created.coll, HTTP_201_CREATED, created.ret)

(* update_item after its read_item found the document: lines 41-45. *)
update_item_apply(c, item_id, item) ==
    LET updated == crud_update_item(c, item_id, item)
    IN  IF updated.ret = <<>>
        THEN Result(updated.coll, HTTP_304_NOT_MODIFIED, <<>>)
        ELSE Result(updated.coll, HTTP_200_OK, updated.ret)

(* update_item without the lookup of lines 36-38. *)
update_item_no_lookup(c, item_id, item) == update_item_apply(c, item_id, item)

(* update_item run without suspension between its two database calls. *)
update_item(c, item_id, item) ==
    LET db_item == crud_read_item(c, item_id)
    IN  IF db_item = <<>> THEN Result(c, HTTP_404_NOT_FOUND, <<>>)
        ELSE update_item_apply(c, item_id, item)

(* delete_item that does not look at the deleted count. *)
delete_item_no_check(c, item_id) ==
    LET deleted == crud_delete_item(c, item_id)
    IN  Result(deleted.coll, HTTP_204_NO_CONTENT, <<>>)

delete_item(c, item_id) ==
    LET deleted == crud_delete_item(c, item_id)
    IN  IF deleted.ret = 0
        THEN Result(deleted.coll, HTTP_404_NOT_FOUND, <<>>)
        ELSE Result(deleted.coll, HTTP_204_NO_CONTENT, <<>>)

---------------------------------------------------------------------------
(* Requests and responses. *)

NoItem == [name |-> "", description |-> "", price |-> 0]

Request(op, id, item, skip, limit) ==
    [op |-> op, id |-> id, item |-> item, skip |-> skip, limit |-> limit]

Response(req, r) ==
    [op |-> req.op, id |-> req.id, item |-> req.item, skip |-> req.skip,
     limit |-> req.limit, status |-> r.status, body |-> r.body]

Idle == [pc |-> "idle", id |-> "", item |-> NoItem]

Init ==
    /\ coll = <<>>
    /\ resp = Response(Request("none", "", NoItem, 0, 0), Result(<<>>, 0, <<>>))
    /\ pend = [h \in Handlers |-> Idle]

(* The router dispatches one request and the handler runs to its response. *)
Serve(req, r) ==
    /\ coll' = r.coll
    /\ resp' = Response(req, r)
    /\ UNCHANGED pend

GetItem(item_id) ==
    Serve(Request("GET", item_id, NoItem, 0, 0), get_item(coll, item_id))

GetAllItems(skip, limit) ==
    Serve(Request("GETALL", "", NoItem, skip, limit),
          get_all_items(coll, skip, limit))

PostItem(item, uuid) ==
    Serve(Request("POST", "", item, 0, 0), post_item(coll, item, uuid))

UpdateItem(item_id, item) ==
    Serve(Request("PUT", item_id, item, 0, 0), update_item(coll, item_id, item))

DeleteItem(item_id) ==
    Serve(Request("DELETE", item_id, NoItem, 0, 0), delete_item(coll, item_id))

(* The PUT handler up to its first await: read_item, then 404 or suspend. *)
UpdateItemRead(h, item_id, item) ==
    /\ pend[h].pc = "idle"
    /\ IF crud_read_item(coll, item_id) = <<>>
       THEN /\ resp' = Response(Request("PUT", item_id, item, 0, 0),
                                Result(coll, HTTP_404_NOT_FOUND, <<>>))
            /\ UNCHANGED <<coll, pend>>
       ELSE /\ pend' = [pend EXCEPT ![h] =
                            [pc |-> "update", id |-> item_id, item |-> item]]
            /\ UNCHANGED <<coll, resp>>

(* The PUT handler resumed: update_one, then 304 or 200. *)
UpdateItemWrite(h) ==
    /\ pend[h].pc = "update"
    /\ LET r == update_item_apply(coll, pend[h].id, pend[h].item)
       IN  /\ coll' = r.coll
           /\ resp' = Response(Request("PUT", pend[h].id, pend[h].item, 0, 0), r)
    /\ pend' = [pend EXCEPT ![h] = Idle]

Next ==
    \/ \E item_id \in Ids : GetItem(item_id)
    \/ \E skip \in Skips, limit \in Limits : GetAllItems(skip, limit)
    \/ \E item \in ItemBase, uuid \in Ids : PostItem(item, uuid)
    \/ \E item_id \in Ids, item \in ItemBase : UpdateItem(item_id, item)
    \/ \E item_id \in Ids : DeleteItem(item_id)

NextConc ==
    \/ \E item_id \in Ids : GetItem(item_id)
    \/ \E skip \in Skips, limit \in Limits : GetAllItems(skip, limit)
    \/ \E item \in ItemBase, uuid \in Ids : PostItem(item, uuid)
    \/ \E h \in Handlers, item_id \in Ids, item \in ItemBase :
           UpdateItemRead(h, item_id, item)
    \/ \E h \in Handlers : UpdateItemWrite(h)
    \/ \E item_id \in Ids : DeleteItem(item_id)

Spec == Init /\ [][Next]_vars

SpecConc == Init /\ [][NextConc]_vars

---------------------------------------------------------------------------
(* What the properties below read off a state. *)

(* The ids of the documents of c, in order. *)
IdsOf(c) == [i \in 1 .. Len(c) |-> c[i]["_id"]]

Known(c, id) == \E i \in 1 .. Len(c) : c[i]["_id"] = id

(* The document of c with this id, as the API shows it. *)
Shown(d) ==
    [id |-> d["_id"], name |-> d["name"], description |-> d["description"],
     price |-> d["price"]]

StoredAs(c, id) == {Shown(c[i]) : i \in {j \in 1 .. Len(c) : c[j]["_id"] = id}}

(* The item with this id and the fields of a request body. *)
Expected(id, body) ==
    [id |-> id, name |-> body.name, description |-> body.description,
     price |-> body.price]

(* The documents of c whose id is not id, in order. *)
Others(c, id) == SelectSeq(c, LAMBDA d : d["_id"] # id)

Unique(c) ==
    \A i, j \in 1 .. Len(c) : c[i]["_id"] = c[j]["_id"] => i = j

---------------------------------------------------------------------------
(* C1: a POST that creates an item answers 201 with the request's name,    *)
(* description and price and a non-empty id, and a GET by that id answers  *)
(* 200 with exactly that item, right after the POST and after any further  *)
(* requests that are not a PUT or DELETE of that id.                       *)
C1_CreateThenGet ==
    [][/\ (resp'.op = "POST" /\ coll' # coll) =>
            \A uuid \in Ids :
                PostItem(resp'.item, uuid) =>
                    /\ resp'.status = 201
                    /\ resp'.body = <<Expected(uuid, resp'.item)>>
                    /\ resp'.body[1].id # ""
                    /\ get_item(coll', uuid).status = 200
                    /\ get_item(coll', uuid).body = resp'.body
       /\ coll' # coll =>
            \A id \in Ids :
                (/\ ~(resp'.op \in {"PUT", "DELETE"} /\ resp'.id = id)
                 /\ get_item(coll, id).status = 200) =>
                    /\ get_item(coll', id).status = 200
                    /\ get_item(coll', id).body = get_item(coll, id).body
      ]_vars

(* A POST has just answered 201, other items are stored too, and a GET by  *)
(* the new id would return the very item of the response.                  *)
C1_Witness ==
    /\ resp.op = "POST"
    /\ resp.status = 201
    /\ Len(coll) > 1
    /\ resp.body = <<Expected(resp.body[1].id, resp.item)>>
    /\ get_item(coll, resp.body[1].id).body = resp.body

(* C2: DELETE of an id that is not stored answers 404; DELETE of a stored  *)
(* id answers 204, leaves no document with that id, and a GET by that id   *)
(* then answers 404.                                                       *)
C2_Delete ==
    [][(resp'.op = "DELETE" /\ DeleteItem(resp'.id)) =>
          IF ~Known(coll, resp'.id)
          THEN resp'.status = 404
          ELSE /\ resp'.status = 204
               /\ ~Known(coll', resp'.id)
               /\ get_item(coll', resp'.id).status = 404
      ]_vars

C2_Witness ==
    /\ resp.op = "DELETE"
    /\ resp.status = 204
    /\ ~Known(coll, resp.id)
    /\ get_item(coll, resp.id).status = 404

(* C3: PUT on an id that is not stored answers 404, not 200 or 304, and    *)
(* stores no document for that id.                                         *)
C3_UpdateUnknown ==
    [][(/\ resp'.op = "PUT"
        /\ ~Known(coll, resp'.id)
        /\ UpdateItem(resp'.id, resp'.item)) =>
          /\ resp'.status = 404
          /\ resp'.status \notin {200, 304}
          /\ ~Known(coll', resp'.id)
          /\ Len(coll') = Len(coll)
      ]_vars

C3_Witness ==
    /\ resp.op = "PUT"
    /\ resp.status = 404
    /\ ~Known(coll, resp.id)
    /\ coll # <<>>

(* C4: a PUT on a stored id that the store applies (modified count > 0)    *)
(* answers 200 with the request's name, description and price and the same *)
(* id; the stored document keeps its id and place and has the request's    *)
(* three fields, and a GET by that id then returns them.                   *)
C4_UpdateApplied ==
    [][(/\ resp'.op = "PUT"
        /\ Known(coll, resp'.id)
        /\ update_one(coll, resp'.id, Vars(resp'.item)).modified_count > 0
        /\ UpdateItem(resp'.id, resp'.item)) =>
          /\ resp'.status = 200
          /\ resp'.body = <<Expected(resp'.id, resp'.item)>>
          /\ IdsOf(coll') = IdsOf(coll)
          /\ StoredAs(coll', resp'.id) = {Expected(resp'.id, resp'.item)}
          /\ get_item(coll', resp'.id).status = 200
          /\ get_item(coll', resp'.id).body = <<Expected(resp'.id, resp'.item)>>
      ]_vars

C4_Witness ==
    /\ resp.op = "PUT"
    /\ resp.status = 200
    /\ resp.body = <<Expected(resp.id, resp.item)>>
    /\ StoredAs(coll, resp.id) = {Expected(resp.id, resp.item)}

(* C5: for skip >= 0 and limit >= 0, GET all answers 200 with the items of *)
(* the positions skip+1 .. skip+k of the collection, in order, where k is  *)
(* min(limit, max(0, n - skip)) and n the collection's size; so never more *)
(* than limit items, and the empty list for skip=0, limit=100 on an empty  *)
(* collection.                                                             *)
C5_GetAll ==
    [][(/\ resp'.op = "GETALL"
        /\ resp'.skip >= 0
        /\ resp'.limit >= 0
        /\ GetAllItems(resp'.skip, resp'.limit)) =>
          LET n == Len(coll)
              skip == resp'.skip
              limit == resp'.limit
              rest == IF n - skip > 0 THEN n - skip ELSE 0
              k == IF limit < rest THEN limit ELSE rest
          IN  /\ resp'.status = 200
              /\ Len(resp'.body) = k
              /\ Len(resp'.body) <= limit
              /\ \A i \in 1 .. k : resp'.body[i] = Shown(coll[skip + i])
              /\ (n = 0 /\ skip = 0 /\ limit = 100) => resp'.body = <<>>
      ]_vars

(* A page that is cut at both ends: one item skipped, one returned, one    *)
(* left out by the limit.                                                  *)
C5_Witness ==
    /\ resp.op = "GETALL"
    /\ resp.status = 200
    /\ resp.skip = 1
    /\ resp.limit = 1
    /\ Len(coll) > 2
    /\ resp.body = <<Shown(coll[2])>>

(* C6: GET by id answers 200 with the stored item exactly when a document  *)
(* with that id is stored at the lookup, and 404 otherwise.                *)
C6_GetById ==
    [][(resp'.op = "GET" /\ GetItem(resp'.id)) =>
          /\ (resp'.status = 200) <=> Known(coll, resp'.id)
          /\ (resp'.status = 404) <=> ~Known(coll, resp'.id)
          /\ resp'.status = 200 => {resp'.body[1]} = StoredAs(coll, resp'.id)
          /\ Len(resp'.body) = IF Known(coll, resp'.id) THEN 1 ELSE 0
      ]_vars

C6_Witness ==
    /\ resp.op = "GET"
    /\ resp.status = 200
    /\ Len(coll) > 1
    /\ resp.id = coll[2]["_id"]
    /\ resp.body = <<Shown(coll[2])>>

(* C7: no two stored documents share an id; a create that stores a         *)
(* document gives it an id no stored document has; no update changes the   *)
(* id of a stored document.                                                *)
C7_IdUniqueImmutable ==
    [][/\ Unique(coll) /\ Unique(coll')
       /\ (resp'.op = "POST" /\ coll' # coll) =>
            \E uuid \in Ids :
                /\ ~Known(coll, uuid)
                /\ IdsOf(coll') = Append(IdsOf(coll), uuid)
       /\ (resp'.op = "PUT" /\ UpdateItem(resp'.id, resp'.item)) =>
            IdsOf(coll') = IdsOf(coll)
      ]_vars

(* Two documents are stored and the second was created last. *)
C7_Witness ==
    /\ Len(coll) = 2
    /\ resp.op = "POST"
    /\ resp.status = 201
    /\ coll[1]["_id"] # coll[2]["_id"]
    /\ resp.body[1].id = coll[2]["_id"]

(* C8: a PUT on a stored id whose stored fields equal the request's        *)
(* answers 304 and leaves the collection as it is; so the same PUT sent    *)
(* again right after it answered 200 answers 304, with the collection as   *)
(* the first PUT left it.                                                  *)
C8_UpdateUnchanged ==
    [][(resp'.op = "PUT" /\ UpdateItem(resp'.id, resp'.item)) =>
          LET id == resp'.id
              item == resp'.item
          IN  /\ StoredAs(coll, id) = {Expected(id, item)} =>
                     (resp'.status = 304 /\ coll' = coll)
              /\ (/\ resp.op = "PUT" /\ resp.status = 200
                  /\ resp.id = id /\ resp.item = item) =>
                     (resp'.status = 304 /\ coll' = coll)
              /\ (Known(coll, id) /\ StoredAs(coll, id) # {Expected(id, item)}) =>
                     (/\ resp'.status = 200
                      /\ update_item(coll', id, item).status = 304
                      /\ update_item(coll', id, item).coll = coll')
      ]_vars

C8_Witness ==
    /\ resp.op = "PUT"
    /\ resp.status = 304
    /\ StoredAs(coll, resp.id) = {Expected(resp.id, resp.item)}

(* C9: with requests interleaved between database calls, a PUT answers 304 *)
(* or 200 only if a document with its id is stored when its update_one     *)
(* runs, and a PUT whose document was deleted after its read answers 404.  *)
C9_UpdateRace ==
    [][\A h \in Handlers :
          (pend[h].pc = "update" /\ UpdateItemWrite(h)) =>
              /\ resp'.status \in {200, 304} => Known(coll, pend[h].id)
              /\ ~Known(coll, pend[h].id) => resp'.status = 404
      ]_vars

(* C10: GET by id, GET all, and a PUT or DELETE that answers 404 leave the *)
(* collection as it is; a PUT or DELETE of id X that succeeds, and a POST  *)
(* with new id X, leave the documents with another id as they are.         *)
C10_Frame ==
    [][/\ resp'.op \in {"GET", "GETALL"} => coll' = coll
       /\ (resp'.op \in {"PUT", "DELETE"} /\ resp'.status = 404) => coll' = coll
       /\ (resp'.op \in {"PUT", "DELETE"} /\ resp'.status # 404) =>
            Others(coll', resp'.id) = Others(coll, resp'.id)
       /\ (resp'.op = "POST" /\ resp'.status = 201) =>
            Others(coll', resp'.body[1].id) = Others(coll, resp'.body[1].id)
       /\ (resp'.op = "POST" /\ resp'.status # 201) => coll' = coll
      ]_vars

(* A DELETE has succeeded and the other document is still stored. *)
C10_Witness ==
    /\ resp.op = "DELETE"
    /\ resp.status = 204
    /\ Len(coll) > 0
    /\ Others(coll, resp.id) = coll

===========================================================================
